---- MODULE Spec2Model ----
(***************************************************************************)
(* Gemini TTS for Obsidian: the text normalizer (cleanText), the read      *)
(* request (readActiveNote / fetchGeminiAudio) and the playback lifecycle  *)
(* (currentAudio, isPlaying, isPaused, object URLs) of src/main.ts.        *)
(*                                                                         *)
(* Texts are sequences of one-character strings; BT stands for the         *)
(* backtick character U+0060, which a TLA+ string cannot hold.             *)
(***************************************************************************)
EXTENDS Integers, Sequences, FiniteSets, TLC

(***************************************************************************)
(* Text helpers: the JavaScript string and regular-expression primitives   *)
(* that cleanText uses.                                                    *)
(***************************************************************************)

BT == "BT"

\* \s of a JavaScript regular expression, and the characters trim() strips
IsSpace(c) == c \in {" ", "\n", "\t"}

\* \d of a JavaScript regular expression
IsDigit(c) == c \in {"0", "1", "2", "3", "4", "5", "6", "7", "8", "9"}

\* ^ under the m flag: the start of the text or just after a line break
AtLineStart(t, i) == i = 1 \/ (i > 1 /\ i <= Len(t) + 1 /\ t[i - 1] = "\n")

\* t[i..j], empty when j < i
Slice(t, i, j) == IF j < i THEN << >> ELSE SubSeq(t, i, j)

\* the literal lit occurs in t at position i
HasAt(t, i, lit) ==
    /\ i >= 1
    /\ i + Len(lit) - 1 <= Len(t)
    /\ \A k \in 1..Len(lit) : t[i + k - 1] = lit[k]

\* the least index >= i where the literal occurs, 0 when there is none
FirstAt(t, i, lit) ==
    LET hits == {k \in i..Len(t) : HasAt(t, k, lit)}
    IN  IF hits = {} THEN 0 ELSE CHOOSE k \in hits : \A m \in hits : k <= m

\* the length of the maximal run of whitespace starting at i  (\s+ or \s*)
SpaceRun(t, i) ==
    LET stops == {k \in i..Len(t) : ~IsSpace(t[k])}
    IN  IF stops = {} THEN Len(t) - i + 1
        ELSE (CHOOSE k \in stops : \A m \in stops : k <= m) - i

\* the length of the maximal run of the character c starting at i
CharRun(t, i, c) ==
    LET stops == {k \in i..Len(t) : t[k] # c}
    IN  IF stops = {} THEN Len(t) - i + 1
        ELSE (CHOOSE k \in stops : \A m \in stops : k <= m) - i

\* the length of the maximal run of digits starting at i  (\d+)
DigitRun(t, i) ==
    LET stops == {k \in i..Len(t) : ~IsDigit(t[k])}
    IN  IF stops = {} THEN Len(t) - i + 1
        ELSE (CHOOSE k \in stops : \A m \in stops : k <= m) - i

\* the last index of the line that position i lies on  (.* up to $)
LineEnd(t, i) ==
    LET nl == FirstAt(t, i, <<"\n">>)
    IN  IF nl = 0 THEN Len(t) ELSE nl - 1

\* String.prototype.trim
trim(t) ==
    LET keep == {k \in 1..Len(t) : ~IsSpace(t[k])}
    IN  IF keep = {} THEN << >>
        ELSE Slice(t, CHOOSE k \in keep : \A m \in keep : k <= m,
                      CHOOSE k \in keep : \A m \in keep : k >= m)

(***************************************************************************)
(* The patterns of cleanText.  Each XEnd(t, i) is the last index of the    *)
(* pattern's match starting at position i, or 0 when the pattern does not  *)
(* match there; each XRep(t, i, e) is what the match t[i..e] is replaced   *)
(* by.  No pattern matches the empty text.                                 *)
(***************************************************************************)

\* String.prototype.replace with a g-flag pattern: leftmost matches, scanned
\* left to right in the original text, never overlapping
ReplaceAll(t, End(_, _), Rep(_, _, _)) ==
    LET out[i \in 1..(Len(t) + 1)] ==
            IF i > Len(t) THEN << >>
            ELSE LET e == End(t, i)
                 IN  IF e = 0 THEN <<t[i]>> \o out[i + 1]
                     ELSE Rep(t, i, e) \o out[e + 1]
    IN  out[1]

\* String.prototype.replace with a pattern without the g flag: the leftmost
\* match only
ReplaceFirst(t, End(_, _), Rep(_, _, _)) ==
    LET starts == {i \in 1..Len(t) : End(t, i) # 0}
    IN  IF starts = {} THEN t
        ELSE LET i == CHOOSE k \in starts : \A m \in starts : k <= m
             IN  Slice(t, 1, i - 1) \o Rep(t, i, End(t, i))
                     \o Slice(t, End(t, i) + 1, Len(t))

Nothing(t, i, e) == << >>

\* /^---\n[\s\S]*?\n---(\n|$)/m
FrontMatterEnd(t, i) ==
    IF ~(AtLineStart(t, i) /\ HasAt(t, i, <<"-", "-", "-", "\n">>)) THEN 0
    ELSE LET closes == {k \in (i + 4)..Len(t) :
                           /\ HasAt(t, k, <<"\n", "-", "-", "-">>)
                           /\ (k + 3 = Len(t) \/ t[k + 4] = "\n")}
         IN  IF closes = {} THEN 0
             ELSE LET k == CHOOSE c \in closes : \A m \in closes : c <= m
                  IN  IF k + 3 = Len(t) THEN k + 3 ELSE k + 4

\* /```[\s\S]*?```/g
FenceEnd(t, i) ==
    IF ~HasAt(t, i, <<BT, BT, BT>>) THEN 0
    ELSE LET k == FirstAt(t, i + 3, <<BT, BT, BT>>)
         IN  IF k = 0 THEN 0 ELSE k + 2

\* /`[^`]+`/g
InlineCodeEnd(t, i) ==
    IF ~HasAt(t, i, <<BT>>) THEN 0
    ELSE LET k == FirstAt(t, i + 1, <<BT>>)
         IN  IF k = 0 \/ k < i + 2 THEN 0 ELSE k

\* /^#{1,6}\s+(.*)$/gm  ->  '$1'
HeaderEnd(t, i) ==
    IF ~(AtLineStart(t, i) /\ HasAt(t, i, <<"#">>)) THEN 0
    ELSE LET h == CharRun(t, i, "#")
             w == SpaceRun(t, i + h)
         IN  IF h > 6 \/ w = 0 THEN 0
             ELSE IF i + h + w > Len(t) THEN Len(t)
             ELSE LineEnd(t, i + h + w)

HeaderRep(t, i, e) ==
    LET h == CharRun(t, i, "#")
    IN  Slice(t, i + h + SpaceRun(t, i + h), e)

\* a pair of delimiters d around one or more characters other than c:
\* /\*\*([^*]+)\*\*/g, /__([^_]+)__/g, /\*([^*]+)\*/g, /_([^_]+)_/g
DelimEnd(t, i, d, c) ==
    IF ~HasAt(t, i, d) THEN 0
    ELSE LET k == FirstAt(t, i + Len(d), <<c>>)
         IN  IF k = 0 \/ k < i + Len(d) + 1 \/ ~HasAt(t, k, d) THEN 0
             ELSE k + Len(d) - 1

BoldStarEnd(t, i) == DelimEnd(t, i, <<"*", "*">>, "*")
BoldUnderEnd(t, i) == DelimEnd(t, i, <<"_", "_">>, "_")
ItalicStarEnd(t, i) == DelimEnd(t, i, <<"*">>, "*")
ItalicUnderEnd(t, i) == DelimEnd(t, i, <<"_">>, "_")

BoldRep(t, i, e) == Slice(t, i + 2, e - 2)
ItalicRep(t, i, e) == Slice(t, i + 1, e - 1)

\* /\[([^\]]+)\]\([^\)]+\)/g  ->  '$1'
LinkEnd(t, i) ==
    IF ~HasAt(t, i, <<"[">>) THEN 0
    ELSE LET j == FirstAt(t, i + 1, <<"]">>)
         IN  IF j = 0 \/ j < i + 2 \/ ~HasAt(t, j + 1, <<"(">>) THEN 0
             ELSE LET k == FirstAt(t, j + 2, <<")">>)
                  IN  IF k = 0 \/ k < j + 3 THEN 0 ELSE k

LinkRep(t, i, e) == Slice(t, i + 1, FirstAt(t, i + 1, <<"]">>) - 1)

\* /\[\[(?:[^\]|]*\|)?([^\]]+)\]\]/g  ->  '$1'
WikiEnd(t, i) ==
    IF ~HasAt(t, i, <<"[", "[">>) THEN 0
    ELSE LET j == FirstAt(t, i + 2, <<"]">>)
         IN  IF j = 0 \/ j < i + 3 \/ ~HasAt(t, j, <<"]", "]">>) THEN 0
             ELSE j + 1

WikiRep(t, i, e) ==
    LET p == FirstAt(Slice(t, 1, e - 2), i + 2, <<"|">>)
    IN  IF p # 0 /\ p < e - 2 THEN Slice(t, p + 1, e - 2)
        ELSE Slice(t, i + 2, e - 2)

\* /^>\s+/gm
QuoteEnd(t, i) ==
    IF ~(AtLineStart(t, i) /\ HasAt(t, i, <<">">>)) THEN 0
    ELSE IF SpaceRun(t, i + 1) = 0 THEN 0 ELSE i + SpaceRun(t, i + 1)

\* /^[-*+]\s+/gm
BulletEnd(t, i) ==
    IF ~(AtLineStart(t, i) /\ i <= Len(t) /\ t[i] \in {"-", "*", "+"}) THEN 0
    ELSE IF SpaceRun(t, i + 1) = 0 THEN 0 ELSE i + SpaceRun(t, i + 1)

\* /^\d+\.\s+/gm
NumberedEnd(t, i) ==
    IF ~(AtLineStart(t, i) /\ i <= Len(t) /\ IsDigit(t[i])) THEN 0
    ELSE LET d == DigitRun(t, i)
         IN  IF ~HasAt(t, i + d, <<".">>) \/ SpaceRun(t, i + d + 1) = 0 THEN 0
             ELSE i + d + SpaceRun(t, i + d + 1)

\* cleanText, line 410: the front matter
removeFrontMatter(text) == ReplaceFirst(text, FrontMatterEnd, Nothing)

\* cleanText, line 415: the fenced code blocks
removeFences(text) == ReplaceAll(text, FenceEnd, Nothing)

\* cleanText, line 417: the inline code
removeInlineCode(text) == ReplaceAll(text, InlineCodeEnd, Nothing)

\* cleanText, with this.settings.skipCodeBlocks as a parameter
cleanText(text, skipCodeBlocks) ==
    LET s1  == removeFrontMatter(text)
        s2  == IF skipCodeBlocks
               THEN removeInlineCode(removeFences(s1))
               ELSE s1
        s3  == ReplaceAll(s2, HeaderEnd, HeaderRep)
        s4  == ReplaceAll(s3, BoldStarEnd, BoldRep)
        s5  == ReplaceAll(s4, BoldUnderEnd, BoldRep)
        s6  == ReplaceAll(s5, ItalicStarEnd, ItalicRep)
        s7  == ReplaceAll(s6, ItalicUnderEnd, ItalicRep)
        s8  == ReplaceAll(s7, LinkEnd, LinkRep)
        s9  == ReplaceAll(s8, WikiEnd, WikiRep)
        s10 == ReplaceAll(s9, QuoteEnd, Nothing)
        s11 == ReplaceAll(s10, BulletEnd, Nothing)
        s12 == ReplaceAll(s11, NumberedEnd, Nothing)
    IN  trim(s12)

(***************************************************************************)
(* The audio response decoder: atob, the choice of the playable type and   *)
(* pcmToWav.  Byte buffers are sequences of numbers in 0..255.             *)
(***************************************************************************)

\* the base64 alphabet; a character's value is its position less one
Base64Alphabet ==
    <<"A", "B", "C", "D", "E", "F", "G", "H", "I", "J", "K", "L", "M", "N",
    "O", "P", "Q", "R", "S", "T", "U", "V", "W", "X", "Y", "Z", "a", "b",
    "c", "d", "e", "f", "g", "h", "i", "j", "k", "l", "m", "n", "o", "p",
    "q", "r", "s", "t", "u", "v", "w", "x", "y", "z", "0", "1", "2", "3",
    "4", "5", "6", "7", "8", "9", "+", "/" >>

IsBase64Char(c) == \E k \in 1..Len(Base64Alphabet) : Base64Alphabet[k] = c
Base64Index(c) ==
    (CHOOSE k \in 1..Len(Base64Alphabet) : Base64Alphabet[k] = c) - 1

\* atob first strips the ASCII whitespace and, when the length is a multiple
\* of four, one or two trailing `=`
Unpadded(t) ==
    LET Keep(c) == ~IsSpace(c)
        s == SelectSeq(t, Keep)
        n == Len(s)
    IN  IF n % 4 = 0 /\ n >= 2 /\ s[n] = "=" /\ s[n - 1] = "="
            THEN SubSeq(s, 1, n - 2)
        ELSE IF n % 4 = 0 /\ n >= 1 /\ s[n] = "="
            THEN SubSeq(s, 1, n - 1)
        ELSE s

ValidBase64Unchecked(t) == TRUE

\* atob throws InvalidCharacterError unless this holds
ValidBase64(t) ==
    LET u == Unpadded(t)
    IN  /\ Len(u) % 4 # 1
        /\ \A i \in 1..Len(u) : IsBase64Char(u[i])

\* atob followed by the charCodeAt loop: the bytes that the payload encodes,
\* six bits per character, the incomplete last byte dropped
atob(t) ==
    LET u == Unpadded(t)
    IN  [k \in 1..((Len(u) * 6) \div 8) |->
            LET bit == 8 * (k - 1)
                q == bit \div 6
                r == bit % 6
                v == Base64Index(u[q + 1]) * 64 + Base64Index(u[q + 2])
            IN  (v \div 2^(4 - r)) % 256]

writeInt32BigEndian(value) ==
    <<(value \div 16777216) % 256, (value \div 65536) % 256,
      (value \div 256) % 256, value % 256>>

\* writeInt32 of pcmToWav: the four bytes it stores from the offset on
writeInt32(value) ==
    <<value % 256, (value \div 256) % 256, (value \div 65536) % 256,
      (value \div 16777216) % 256>>

writeInt16BigEndian(value) == <<(value \div 256) % 256, value % 256>>

\* writeInt16 of pcmToWav: the two bytes it stores from the offset on
writeInt16(value) == <<value % 256, (value \div 256) % 256>>

\* pcmToWav: the 44-byte header, its fields in the order of their offsets
\* 0, 4, 8, 12, 16, 20, 22, 24, 28, 32, 34, 36, 40, then the PCM data
pcmToWav(pcmData, sampleRate) ==
    LET channels == 1
        bytesPerSample == 2
    IN  <<82, 73, 70, 70>>
        \o writeInt32(36 + Len(pcmData))
        \o <<87, 65, 86, 69>>
        \o <<102, 109, 116, 32>>
        \o writeInt32(16)
        \o writeInt16(1)
        \o writeInt16(channels)
        \o writeInt32(sampleRate)
        \o writeInt32(sampleRate * channels * bytesPerSample)
        \o writeInt16(channels * bytesPerSample)
        \o writeInt16(16)
        \o <<100, 97, 116, 97>>
        \o writeInt32(Len(pcmData))
        \o pcmData

\* String.prototype.includes
includes(t, lit) == \E i \in 1..(Len(t) + 1) : HasAt(t, i, lit)

\* `mimeType?.includes(lit)`: false for a response without mimeType
mimeIncludes(mimeType, lit) == mimeType.given /\ includes(mimeType.text, lit)

\* parseInt of a run of decimal digits
parseInt(digits) ==
    LET val[n \in 0..Len(digits)] ==
            IF n = 0 THEN 0
            ELSE 10 * val[n - 1]
                 + (CHOOSE d \in 0..9 : ToString(d) = digits[n])
    IN  val[Len(digits)]

\* `mimeType?.match(/rate=(\d+)/)` and `rateMatch ? parseInt(rateMatch[1]) :
\* 24000`: the first place where `rate=` is followed by a digit
sampleRateOf(mimeType) ==
    LET lit == <<"r", "a", "t", "e", "=">>
        t == mimeType.text
        hits == {i \in 1..Len(t) :
                    HasAt(t, i, lit) /\ DigitRun(t, i + Len(lit)) > 0}
    IN  IF ~mimeType.given \/ hits = {} THEN 24000
        ELSE LET i == CHOOSE k \in hits : \A m \in hits : k <= m
             IN  parseInt(SubSeq(t, i + Len(lit),
                                 i + Len(lit) + DigitRun(t, i + Len(lit)) - 1))

decodeOggFirst(base64Audio, mimeType) ==
    LET bytes == atob(base64Audio)
    IN  IF \/ mimeIncludes(mimeType, <<"L", "1", "6">>)
           \/ mimeIncludes(mimeType, <<"p", "c", "m">>)
            THEN [buffer |-> pcmToWav(bytes, sampleRateOf(mimeType)),
                  mimeType |-> "audio/wav"]
        ELSE IF mimeIncludes(mimeType, <<"o", "g", "g">>)
            THEN [buffer |-> bytes, mimeType |-> "audio/ogg"]
        ELSE [buffer |-> bytes, mimeType |-> "audio/mpeg"]

\* fetchGeminiAudio from atob to its return: the buffer and the playable
\* type for a valid payload and the declared type of the response
decode(base64Audio, mimeType) ==
    LET bytes == atob(base64Audio)
    IN  IF \/ mimeIncludes(mimeType, <<"L", "1", "6">>)
           \/ mimeIncludes(mimeType, <<"p", "c", "m">>)
            THEN [buffer |-> pcmToWav(bytes, sampleRateOf(mimeType)),
                  mimeType |-> "audio/wav"]
        ELSE IF mimeIncludes(mimeType, <<"m", "p", "e", "g">>)
            THEN [buffer |-> bytes, mimeType |-> "audio/mpeg"]
        ELSE IF mimeIncludes(mimeType, <<"o", "g", "g">>)
            THEN [buffer |-> bytes, mimeType |-> "audio/ogg"]
        ELSE [buffer |-> bytes, mimeType |-> "audio/mpeg"]

\* the declared types of the responses: texts of inlineData.mimeType
MimeTexts ==
    <<
      << >>,
      <<"a", "u", "d", "i", "o", "/", "L", "1", "6", ";", "c", "o", "d",
        "e", "c", "=", "p", "c", "m", ";", "r", "a", "t", "e", "=", "2",
        "4", "0", "0", "0">>,
      <<"a", "u", "d", "i", "o", "/", "L", "1", "6", ";", "r", "a", "t",
        "e", "=", "1", "6", "0", "0", "0">>,
      <<"a", "u", "d", "i", "o", "/", "p", "c", "m">>,
      <<"a", "u", "d", "i", "o", "/", "p", "c", "m", ";", "r", "a", "t",
        "e", "=">>,
      <<"a", "u", "d", "i", "o", "/", "L", "1", "6", ";", "r", "a", "t",
        "e", "=", "1", "0", "7", "3", "7", "4", "1", "8", "2", "3">>,
      <<"a", "u", "d", "i", "o", "/", "m", "p", "e", "g">>,
      <<"a", "u", "d", "i", "o", "/", "o", "g", "g">>,
      <<"a", "u", "d", "i", "o", "/", "o", "g", "g", ";", "c", "o", "d",
        "e", "c", "s", "=", "m", "p", "e", "g">>,
      <<"a", "u", "d", "i", "o", "/", "m", "p", "e", "g", ";", "f", "r",
        "o", "m", "=", "p", "c", "m">>,
      <<"a", "u", "d", "i", "o", "/", "w", "a", "v">>,
      <<"a", "u", "d", "i", "o", "/", "l", "1", "6">>,
      <<"a", "u", "d", "i", "o", "/", "L", "1", "6", ";", "r", "a", "t",
        "e", "=", "8", "0", "0", "0", ";", "r", "a", "t", "e", "=", "4",
        "4", "1", "0", "0">>,
      <<"a", "p", "p", "l", "i", "c", "a", "t", "i", "o", "n", "/", "o",
        "g", "g", ";", "r", "a", "t", "e", "=", "8", "0", "0", "0">>
    >>

\* inlineData.mimeType: absent, or one of the texts
MimeTypes ==
    {[given |-> FALSE, text |-> << >>]}
    \cup {[given |-> TRUE, text |-> MimeTexts[k]] : k \in DOMAIN MimeTexts}

\* inlineData.data: payloads that are base64, one of them with white space
\* inside and one that is white space only
ValidPayloads ==
    {
      <<"A", "A", "A", "A">>,
      <<"/", "w", "=", "=">>,
      <<"A", "Q", "I", "=">>,
      <<"A", "Q", "I", "D", "B", "A", "=", "=">>,
      <<"g", "P", "8", "A", " ", "A", "Q", "=", "=">>,
      <<" ">>
    }

\* inlineData.data: payloads that are not base64
InvalidPayloads ==
    {
      <<"A">>,
      <<"@", "@", "@", "@">>,
      <<"A", "A", "=", "A">>
    }

(***************************************************************************)
(* Bounds of the model.                                                    *)
(***************************************************************************)

\* lines in a text given to cleanText alone
MaxLines == 4

\* the lines such a text is made of: an empty line, a front-matter
\* delimiter, plain text, a fence delimiter, a lone backtick, inline code, a
\* header whose text starts like a header, bold text, a wikilink with an
\* alias, a list item, and a quoted numbered item
Lines ==
    { << >>,
      <<"-", "-", "-">>,
      <<"a">>,
      <<BT, BT, BT>>,
      <<BT>>,
      <<BT, "a", BT>>,
      <<"#", " ", "#", " ", "a">>,
      <<"*", "*", "a", "*", "*">>,
      <<"[", "[", "a", "|", "b", "]", "]">>,
      <<"-", " ", "a">>,
      <<">", " ", "1", ".", " ", "a">> }

\* the lines of a text joined by line breaks
Join(ls) ==
    LET j[n \in 0..Len(ls)] ==
            IF n = 0 THEN << >>
            ELSE IF n = 1 THEN ls[1]
            ELSE j[n - 1] \o <<"\n">> \o ls[n]
    IN  j[Len(ls)]

\* the texts given to cleanText alone: one to MaxLines lines
Texts == UNION {{Join(ls) : ls \in [1..n -> Lines]} : n \in 1..MaxLines}

\* read requests issued in one run
MaxReads == 2
\* sidebar history plays issued in one run
MaxPlays == 1
MaxSaves == 1
MaxLoops == 1
\* the max attribute the progress bar is created with
BarMax == 100

Reads == 1..MaxReads
\* every audio element ever created is numbered; an element and the object
\* URL it is given as src carry the same number
Audios == 1..(MaxReads + MaxPlays)

\* what the editor holds when a read request is issued: the full document
\* text (editor.getValue()) and the current selection, a part of it
Editors ==
    { [doc |-> << >>,                          sel |-> << >>],
      [doc |-> <<" ", "\n">>,                  sel |-> << >>],
      [doc |-> <<BT, BT, BT, "x", BT, BT, BT>>, sel |-> << >>],
      [doc |-> <<"#", " ", "a">>,              sel |-> << >>],
      [doc |-> <<"a", " ", "b">>,              sel |-> <<"b">>] }

\* what the remote call can come back with: a network failure, a non-success
\* status, or a 200 response whose body has one of the shapes the code tests
Responses ==
    { [status |-> 0,   body |-> "network", data |-> << >>],
      [status |-> 429, body |-> "error", data |-> << >>],
      [status |-> 500, body |-> "error", data |-> << >>],
      [status |-> 200, body |-> "nocandidates", data |-> << >>],
      [status |-> 200, body |-> "noparts", data |-> << >>],
      [status |-> 200, body |-> "noaudio", data |-> << >>],
      [status |-> 200, body |-> "audio", data |-> <<"@", "@", "@", "@">>],
      [status |-> 200, body |-> "audio", data |-> <<"A", "A", "A", "A">>] }

ApiKeys == {"", "key"}

\* the settings the plugin runs with: the defaults, which have no API key,
\* code blocks skipped and auto-save off, then a key entered, then the two
\* toggles flipped
Settings ==
    { [apiKey |-> "", skipCodeBlocks |-> TRUE, saveAudioFiles |-> FALSE],
      [apiKey |-> "key", skipCodeBlocks |-> TRUE, saveAudioFiles |-> FALSE],
      [apiKey |-> "key", skipCodeBlocks |-> FALSE, saveAudioFiles |-> TRUE] }

(***************************************************************************)
(* State.                                                                  *)
(***************************************************************************)
VARIABLES
    settings,          \* this.settings: apiKey, skipCodeBlocks
    currentAudio,      \* this.currentAudio: 0 for null, else the element
    currentAudioBlob,  \* this.currentAudioBlob: 0 for null, else the read
                       \* request whose response the blob holds
    isPlaying,         \* this.isPlaying
    isPaused,          \* this.isPaused
    statusBar,         \* the text of this.statusBarItem
    notice,            \* the Notices shown by the last task, in order
    audio,             \* the audio elements: device state, creating request,
                       \* the loop attribute and the restarts it has caused,
                       \* whether the metadata (the duration) is loaded, and
                       \* currentTime in seconds
    revoked,           \* per object URL, the calls of URL.revokeObjectURL
    req,               \* the invocations of readActiveNote: where each is
                       \* suspended (pc), the text of its HTTP request while
                       \* that is in flight, the HTTP requests it has sent,
                       \* its local audioUrl and the element it created
    pendingPlays,      \* sidebar playAudio calls awaiting readBinary
    plays,             \* sidebar playAudio calls issued so far
    files,             \* the calls of writeBinary made by saveCurrentAudio,
                       \* in order: the path, the blob written, whether the
                       \* save was a read request's or the command's, and
                       \* the read request that made the call (0 for none)
    stamp,             \* the number of distinct clock seconds in which
                       \* saveCurrentAudio has been entered so far
    progressBar,       \* the progress bar of the sidebar's player: whether
                       \* the player is displayed, the bar's max, and the
                       \* element its 'timeupdate' listener is registered on
    decoded,           \* the decoder seen alone: the payload and declared
                       \* type it was given, and what it returned or threw
    cleaned,           \* cleanText seen alone: the text it was given, the
                       \* value of cleanedText after the front-matter step
                       \* and after the fence step, what it returned, and
                       \* what it returned when given that again
    stopLog,           \* history: the numbers of read requests and of
                       \* sidebar plays that had been issued when the stop
                       \* command was last invoked
    replay             \* one audio followed from the decoder to the sidebar:
                       \* the response it came from, the type of its blob,
                       \* the name of the file it was saved to, and the type
                       \* of the blob that playAudio made from that file

vars == <<settings, currentAudio, currentAudioBlob, isPlaying, isPaused,
          statusBar, notice, audio, revoked, req, pendingPlays, plays, files,
          stamp, progressBar, decoded, cleaned, stopLog, replay>>

\* a request that was never issued
NoReq == [pc |-> "none", text |-> << >>, http |-> 0, audioUrl |-> 0,
          el |-> 0, path |-> 0]

\* an element that was never created
NoAudio == [dev |-> "none", owner |-> 0, loop |-> FALSE, loops |-> 0,
            meta |-> FALSE, pos |-> 0]

\* the decoder has not been given anything
NoDecode == [base64Audio |-> << >>,
             mimeType |-> [given |-> FALSE, text |-> << >>],
             state |-> "none",
             result |-> [buffer |-> << >>, mimeType |-> ""]]

\* no audio has been generated
NoReplay == [state |-> "none", base64Audio |-> << >>,
             mimeType |-> [given |-> FALSE, text |-> << >>],
             blobType |-> "", name |-> << >>, played |-> ""]

\* the stop command has not been invoked
NoStop == [invoked |-> FALSE, reads |-> 0, plays |-> 0]

\* cleanText has not been given anything
NoClean == [text |-> << >>, state |-> "none", afterFrontMatter |-> << >>,
            afterFences |-> << >>, result |-> << >>, again |-> << >>]

\* the sidebar shows 'No audio playing'
NoBar == [shown |-> FALSE, max |-> 0, el |-> 0]

Init ==
    /\ settings \in Settings
    /\ currentAudio = 0
    /\ currentAudioBlob = 0
    /\ isPlaying = FALSE
    /\ isPaused = FALSE
    /\ statusBar = "Gemini TTS"
    /\ notice = << >>
    /\ audio = [a \in Audios |-> NoAudio]
    /\ revoked = [a \in Audios |-> 0]
    /\ req = [r \in Reads |-> NoReq]
    /\ pendingPlays = 0
    /\ plays = 0
    /\ files = << >>
    /\ stamp = 0
    /\ progressBar = NoBar
    /\ decoded = NoDecode
    /\ cleaned = NoClean
    /\ stopLog = NoStop
    /\ replay = NoReplay

\* the mutable state of the plugin and of the playback device as one record,
\* so that the methods below are functions from state to state; a task
\* starts with no Notice shown
Plugin ==
    [currentAudio |-> currentAudio, currentAudioBlob |-> currentAudioBlob,
     isPlaying |-> isPlaying, isPaused |-> isPaused, statusBar |-> statusBar,
     notice |-> << >>, audio |-> audio, revoked |-> revoked, req |-> req,
     progressBar |-> progressBar]

Commit(p) ==
    /\ currentAudio' = p.currentAudio
    /\ currentAudioBlob' = p.currentAudioBlob
    /\ isPlaying' = p.isPlaying
    /\ isPaused' = p.isPaused
    /\ statusBar' = p.statusBar
    /\ notice' = p.notice
    /\ audio' = p.audio
    /\ revoked' = p.revoked
    /\ req' = p.req
    /\ progressBar' = p.progressBar

\* the next unused element / object URL number, and the next unused request
NextAudio == Cardinality({a \in Audios : audio[a].dev # "none"}) + 1
NextRead == Cardinality({r \in Reads : req[r].pc # "none"}) + 1

(***************************************************************************)
(* The playback device: HTMLMediaElement and URL.                          *)
(***************************************************************************)

\* the request suspended at `await this.currentAudio.play()` on element a
Awaiting(p, a) == {r \in Reads : p.req[r].pc = "play" /\ p.req[r].el = a}

\* HTMLMediaElement.pause(): an element that is loading or playing becomes
\* paused, and a pending play() promise is rejected (AbortError)
pause(p, a) ==
    IF p.audio[a].dev \notin {"loading", "playing"} THEN p
    ELSE [p EXCEPT !.audio[a].dev = "paused",
                   !.req = [r \in Reads |->
                               IF p.audio[a].dev = "loading" /\ r \in Awaiting(p, a)
                               THEN [p.req[r] EXCEPT !.pc = "rejected"]
                               ELSE p.req[r]]]

\* HTMLMediaElement.play(): playback is requested and starts asynchronously;
\* an element in error stays in error
play(p, a) ==
    IF p.audio[a].dev \in {"paused", "ended"}
    THEN [p EXCEPT !.audio[a].dev = "loading"]
    ELSE p

\* the length of the audio of element a, in whole seconds (0 for a clip
\* shorter than a second): the sessions of a run differ in length
Durations == <<2, 1, 0>>
Duration(a) == Durations[((a - 1) % Len(Durations)) + 1]

Min(x, y) == IF x <= y THEN x ELSE y

\* HTMLMediaElement.currentTime = t: with the metadata loaded the element
\* seeks, and a position past the end becomes the end; before that the value
\* is kept as the default playback start position, which currentTime returns
setCurrentTime(p, a, t) ==
    IF p.audio[a].meta
    THEN [p EXCEPT !.audio[a].pos = Min(t, Duration(a))]
    ELSE [p EXCEPT !.audio[a].pos = t]

\* the metadata of element a is loaded: the element seeks to the default
\* playback start position
loadedMetadata(p, a) ==
    [p EXCEPT !.audio[a].meta = TRUE,
              !.audio[a].pos = Min(@, Duration(a))]

\* GeminiTTSSidebarView.updatePlayerDisplay: the player with a fresh progress
\* bar when called with true while an element is current, else the text
\* 'No audio playing'
updatePlayerDisplay(p, playing) ==
    IF playing /\ p.currentAudio # 0
    THEN [p EXCEPT !.progressBar = [shown |-> TRUE, max |-> BarMax,
                                    el |-> p.currentAudio]]
    ELSE [p EXCEPT !.progressBar = NoBar]

\* URL.revokeObjectURL
revokeObjectURL(p, u) == [p EXCEPT !.revoked[u] = @ + 1]

\* new Notice(text)
Notice(p, text) == [p EXCEPT !.notice = Append(@, text)]

(***************************************************************************)
(* The methods of GeminiTTSPlugin, as functions from state to state.       *)
(***************************************************************************)

\* `!noteContent || noteContent.trim().length === 0`, and the same test on
\* the cleaned text
IsBlank(t) == Len(t) = 0 \/ Len(trim(t)) = 0

EmptyInputNoticeRawOnly(noteContent, cleanedText) ==
    IF IsBlank(noteContent) THEN <<"Note is empty">> ELSE << >>

\* the two early returns of readActiveNote on its input: the Notice shown,
\* << >> when the request goes on
EmptyInputNotice(noteContent, cleanedText) ==
    IF IsBlank(noteContent) THEN <<"Note is empty">>
    ELSE IF IsBlank(cleanedText) THEN <<"No readable text found in note">>
    ELSE << >>

ApiKeyMissingUnchecked(key) == FALSE

\* `!apiKey` in fetchGeminiAudio
ApiKeyMissing(key) == key = ""

\* response.ok
ResponseOk(resp) == resp.status \in 200..299

\* the message of the error that fetchGeminiAudio throws for a response,
\* << >> when it returns the audio
FetchError(resp) ==
    IF resp.body = "network"
        THEN <<"Failed to fetch audio: ", "Failed to fetch">>
    ELSE IF ~ResponseOk(resp)
        THEN <<"Failed to fetch audio: ", "API request failed: ",
               ToString(resp.status)>>
    ELSE IF resp.body = "nocandidates"
        THEN <<"Failed to fetch audio: ",
               "Invalid response structure from API: no candidates">>
    ELSE IF resp.body = "noparts"
        THEN <<"Failed to fetch audio: ",
               "Invalid response structure from API: no content/parts">>
    ELSE IF resp.body = "noaudio"
        THEN <<"Failed to fetch audio: ", "No audio data in response">>
    ELSE IF ~ValidBase64(resp.data)
        THEN <<"Failed to fetch audio: ", "Failed to decode audio data: ",
               "InvalidCharacterError">>
    ELSE << >>

\* the closure cleanupAudio of the invocation r of readActiveNote
cleanupAudio(p, r) ==
    LET p1 == IF p.req[r].audioUrl # 0
              THEN [revokeObjectURL(p, p.req[r].audioUrl)
                        EXCEPT !.req[r].audioUrl = 0]
              ELSE p
    IN  [p1 EXCEPT !.isPlaying = FALSE]

\* the catch block of the invocation r of readActiveNote
catchError(p, r, message) ==
    LET p1 == Notice(p, <<"Error: ">> \o message)
        p2 == [p1 EXCEPT !.statusBar = "Gemini TTS: Error",
                         !.req[r].text = << >>,
                         !.req[r].pc = "done"]
    IN  cleanupAudio(p2, r)

stopPlaybackKeepsPaused(p) ==
    IF p.currentAudio = 0 THEN p
    ELSE LET p1 == setCurrentTime(pause(p, p.currentAudio), p.currentAudio, 0)
             p2 == [p1 EXCEPT !.currentAudio = 0,
                              !.isPlaying = FALSE,
                              !.statusBar = "Gemini TTS: Stopped"]
         IN  updatePlayerDisplay(Notice(p2, <<"Playback stopped">>), FALSE)

\* stopPlayback
stopPlayback(p) ==
    IF p.currentAudio = 0 THEN p
    ELSE LET p1 == setCurrentTime(pause(p, p.currentAudio), p.currentAudio, 0)
             p2 == [p1 EXCEPT !.currentAudio = 0,
                              !.isPlaying = FALSE,
                              !.isPaused = FALSE,
                              !.statusBar = "Gemini TTS: Stopped"]
         IN  updatePlayerDisplay(Notice(p2, <<"Playback stopped">>), FALSE)

togglePauseResumeKeepsPlaying(p) ==
    IF p.currentAudio = 0 THEN Notice(p, <<"No audio is currently loaded">>)
    ELSE IF p.isPaused
        THEN Notice([play(p, p.currentAudio)
                        EXCEPT !.isPaused = FALSE,
                               !.isPlaying = TRUE,
                               !.statusBar = "Gemini TTS: Playing..."],
                    <<"Playback resumed">>)
    ELSE IF p.isPlaying
        THEN Notice([pause(p, p.currentAudio)
                        EXCEPT !.isPaused = TRUE,
                               !.statusBar = "Gemini TTS: Paused"],
                    <<"Playback paused">>)
    ELSE p

\* togglePauseResume
togglePauseResume(p) ==
    IF p.currentAudio = 0 THEN Notice(p, <<"No audio is currently loaded">>)
    ELSE IF p.isPaused
        THEN Notice([play(p, p.currentAudio)
                        EXCEPT !.isPaused = FALSE,
                               !.isPlaying = TRUE,
                               !.statusBar = "Gemini TTS: Playing..."],
                    <<"Playback resumed">>)
    ELSE IF p.isPlaying
        THEN Notice([pause(p, p.currentAudio)
                        EXCEPT !.isPaused = TRUE,
                               !.isPlaying = FALSE,
                               !.statusBar = "Gemini TTS: Paused"],
                    <<"Playback paused">>)
    ELSE p

\* the 'ended' listener that the invocation r of readActiveNote registers:
\* it acts `if (!this.currentAudio?.loop)`
endedListener(p, r) ==
    IF p.currentAudio # 0 /\ p.audio[p.currentAudio].loop THEN p
    ELSE updatePlayerDisplay(
             cleanupAudio([p EXCEPT !.statusBar = "Gemini TTS: Stopped"], r),
             FALSE)

\* the 'error' listener that the invocation r of readActiveNote registers
errorListener(p, r) ==
    updatePlayerDisplay(
        cleanupAudio([Notice(p, <<"Error playing audio: ", "MediaError">>)
                         EXCEPT !.statusBar = "Gemini TTS: Error"], r),
        FALSE)

\* the microtasks that follow a task: a request whose play() promise was
\* rejected by a pause() in this task runs its catch block before any other
\* task starts
Settle(p) ==
    LET rejected == {r \in Reads : p.req[r].pc = "rejected"}
    IN  IF rejected = {} THEN p
        ELSE catchError(p, CHOOSE r \in rejected : TRUE, <<"AbortError">>)

\* readActiveNote up to its first suspension, for the invocation r issued
\* with an active view or none and the editor content ed; pc = "nokey" when
\* fetchGeminiAudio has thrown before sending anything
readActiveNote(p, r, view, ed) ==
    LET p0 == [stopPlayback(p) EXCEPT !.req[r].pc = "done"]
        noteContent == ed.doc
        cleanedText == cleanText(noteContent, settings.skipCodeBlocks)
    IN  IF ~view
            THEN Notice(p0, <<"No active note found">>)
        ELSE IF EmptyInputNotice(noteContent, cleanedText) # << >>
            THEN Notice(p0, EmptyInputNotice(noteContent, cleanedText))
        ELSE LET p1 == [Notice(p0, <<"Generating audio...">>)
                           EXCEPT !.statusBar = "Gemini TTS: Generating..."]
             IN  IF ApiKeyMissing(settings.apiKey)
                 THEN [p1 EXCEPT !.req[r].pc = "nokey"]
                 ELSE [p1 EXCEPT !.req[r].pc = "fetch",
                                 !.req[r].text = cleanedText,
                                 !.req[r].http = @ + 1]

\* the task that runs readActiveNote: the microtasks that follow it are the
\* catch block of a request whose play() this call's stopPlayback rejected,
\* then this request's own catch block when fetchGeminiAudio threw at once
readActiveNoteTask(p, r, view, ed) ==
    LET p1 == Settle(readActiveNote(p, r, view, ed))
    IN  IF p1.req[r].pc = "nokey"
        THEN catchError(p1, r,
               <<"API key not configured. Please set your Gemini API key in plugin settings.">>)
        ELSE p1

\* readActiveNote from the return of `await this.fetchGeminiAudio(...)` to
\* `await this.currentAudio.play()`; a is the element and object URL it makes
startPlayback(p, r, a) ==
    [p EXCEPT !.currentAudioBlob = r,
              !.req[r].text = << >>,
              !.req[r].audioUrl = a,
              !.req[r].el = a,
              !.req[r].pc = "play",
              !.currentAudio = a,
              !.audio[a] = [NoAudio EXCEPT !.dev = "loading", !.owner = r],
              !.isPlaying = TRUE,
              !.isPaused = FALSE,
              !.statusBar = "Gemini TTS: Playing..."]

\* readActiveNote after `await this.currentAudio.play()` resolved, up to the
\* first suspension inside saveCurrentAudio, which is called whatever the
\* setting saveAudioFiles is; path is the file name saveCurrentAudio has
\* computed from the clock
afterPlay(p, r, path) ==
    [updatePlayerDisplay(Notice(p, <<"Playing audio">>), TRUE)
        EXCEPT !.req[r].pc = "save", !.req[r].path = path]

\* GeminiTTSSidebarView.playAudio after `await readBinary(...)`; a is the
\* element and object URL it makes
playAudio(p, a) ==
    LET p1 == IF p.currentAudio # 0
              THEN revokeObjectURL(pause(p, p.currentAudio), p.currentAudio)
              ELSE p
    IN  Notice([p1 EXCEPT !.currentAudio = a,
                          !.audio[a] = [NoAudio EXCEPT !.dev = "loading"],
                          !.isPlaying = TRUE,
                          !.isPaused = FALSE],
               <<"Playing: ", "file">>)

(***************************************************************************)
(* Actions: one per command, callback or device event.                     *)
(***************************************************************************)

\* the ribbon icon or the 'Read active note' command
ReadActiveNote(view, ed) ==
    /\ NextRead <= MaxReads
    /\ Commit(readActiveNoteTask(Plugin, NextRead, view, ed))
    /\ UNCHANGED <<settings, decoded, cleaned, stopLog, replay, pendingPlays, plays, files, stamp>>

\* the remote call of request r comes back
FetchResponds(r, resp) ==
    /\ req[r].pc = "fetch"
    /\ IF FetchError(resp) # << >>
       THEN Commit(catchError(Plugin, r, FetchError(resp)))
       ELSE Commit(startPlayback(Plugin, r, NextAudio))
    /\ UNCHANGED <<settings, decoded, cleaned, stopLog, replay, pendingPlays, plays, files, stamp>>

\* the time stamp (to the second) that saveCurrentAudio puts in the file
\* name: the clock is in the second of the previous call, or in a later one
Timestamps == {t \in {stamp, stamp + 1} : t > 0}

\* the device starts playing element a: play() resolves
DeviceStarts(a) ==
    /\ audio[a].dev = "loading"
    /\ LET p1 == [loadedMetadata(Plugin, a) EXCEPT !.audio[a].dev = "playing"]
       IN  IF Awaiting(Plugin, a) = {}
           THEN Commit(p1) /\ UNCHANGED stamp
           ELSE \E t \in Timestamps :
                   /\ stamp' = t
                   /\ Commit(afterPlay(p1, CHOOSE r \in Awaiting(Plugin, a) : TRUE, t))
    /\ UNCHANGED <<settings, decoded, cleaned, stopLog, replay, pendingPlays, plays, files>>

DeviceEndsIgnoringLoop(a) ==
    /\ audio[a].dev = "playing"
    /\ LET p1 == [Plugin EXCEPT !.audio[a].dev = "ended"]
       IN  IF audio[a].owner = 0 THEN Commit(p1)
           ELSE Commit(updatePlayerDisplay(
                           cleanupAudio([p1 EXCEPT !.statusBar = "Gemini TTS: Stopped"],
                                        audio[a].owner), FALSE))
    /\ UNCHANGED <<settings, decoded, cleaned, stopLog, replay, pendingPlays, plays, files, stamp>>

\* element a plays to its end: with the loop attribute set the element seeks
\* back to the start and goes on playing, and no event is dispatched;
\* otherwise playback ends and 'ended' is dispatched
DeviceEnds(a) ==
    /\ audio[a].dev = "playing"
    /\ audio[a].loop => audio[a].loops < MaxLoops
    /\ IF audio[a].loop
       THEN Commit([Plugin EXCEPT !.audio[a].loops = @ + 1])
       ELSE LET p1 == [Plugin EXCEPT !.audio[a].dev = "ended"]
            IN  IF audio[a].owner = 0 THEN Commit(p1)
                ELSE Commit(endedListener(p1, audio[a].owner))
    /\ UNCHANGED <<settings, decoded, cleaned, stopLog, replay, pendingPlays, plays, files, stamp>>

\* the device cannot load or decode element a: 'error' is dispatched and a
\* pending play() promise is rejected
DeviceFails(a) ==
    /\ audio[a].dev \in {"loading", "playing"}
    /\ LET p1 == [Plugin EXCEPT !.audio[a].dev = "error"]
           p2 == IF audio[a].owner = 0 THEN p1
                 ELSE errorListener(p1, audio[a].owner)
       IN  IF audio[a].dev = "loading" /\ Awaiting(Plugin, a) # {}
           THEN Commit(catchError(p2, CHOOSE r \in Awaiting(Plugin, a) : TRUE,
                                  <<"NotSupportedError">>))
           ELSE Commit(p2)
    /\ UNCHANGED <<settings, decoded, cleaned, stopLog, replay, pendingPlays, plays, files, stamp>>

\* saveCurrentAudio, called at the end of request r, writes the file
SaveCompletes(r) ==
    /\ req[r].pc = "save"
    /\ files' = Append(files, [path |-> req[r].path, blob |-> currentAudioBlob,
                               by |-> "read", r |-> r])
    /\ Commit(Notice([Plugin EXCEPT !.req[r].pc = "done", !.req[r].path = 0],
                     <<"Audio saved: ", "file">>))
    /\ UNCHANGED <<settings, decoded, cleaned, stopLog, replay, pendingPlays, plays, stamp>>

\* the 'Save current audio to file' command: saveCurrentAudio, its awaits
\* taken together
SaveCurrentAudio ==
    /\ Cardinality({k \in DOMAIN files : files[k].by = "command"}) < MaxSaves
    /\ IF currentAudioBlob = 0
       THEN /\ Commit(Notice(Plugin, <<"No audio available to save">>))
            /\ UNCHANGED <<files, stamp>>
       ELSE \E t \in Timestamps :
               /\ stamp' = t
               /\ files' = Append(files, [path |-> t, blob |-> currentAudioBlob,
                                          by |-> "command", r |-> 0])
               /\ Commit(Notice(Plugin, <<"Audio saved: ", "file">>))
    /\ UNCHANGED <<settings, decoded, cleaned, stopLog, replay, pendingPlays, plays>>

\* the 'Stop playback' command, the sidebar's stop button, onunload
StopPlayback ==
    /\ Commit(Settle(stopPlayback(Plugin)))
    /\ UNCHANGED <<settings, decoded, cleaned, stopLog, replay, pendingPlays, plays, files, stamp>>

\* the 'Stop playback' command, with the requests issued so far recorded
StopCommand ==
    /\ Commit(Settle(stopPlayback(Plugin)))
    /\ stopLog' = [invoked |-> TRUE, reads |-> NextRead - 1, plays |-> plays]
    /\ UNCHANGED <<settings, decoded, cleaned, replay, pendingPlays, plays,
                   files, stamp>>

\* the 'Pause/Resume playback' command, the sidebar's pause button
TogglePauseResume ==
    /\ Commit(Settle(togglePauseResume(Plugin)))
    /\ UNCHANGED <<settings, decoded, cleaned, stopLog, replay, pendingPlays, plays, files, stamp>>

\* the repeat button of the popup player, which is on screen while the
\* current element plays or is paused: it flips the element's loop attribute
ToggleRepeat ==
    /\ currentAudio # 0
    /\ audio[currentAudio].dev \in {"playing", "paused"}
    /\ Commit([Plugin EXCEPT !.audio[currentAudio].loop = ~@])
    /\ UNCHANGED <<settings, decoded, cleaned, stopLog, replay, pendingPlays, plays, files, stamp>>

\* updateProgress: `Math.floor(this.plugin.currentAudio?.duration || 0)`
\* becomes the bar's max `if (duration > 0)`
updateProgress(p) ==
    IF /\ p.currentAudio # 0
       /\ p.audio[p.currentAudio].meta
       /\ Duration(p.currentAudio) > 0
    THEN [p EXCEPT !.progressBar.max = Duration(p.currentAudio)]
    ELSE p

\* 'timeupdate' on the playing element that the displayed player listens to
TimeUpdate ==
    /\ progressBar.shown
    /\ audio[progressBar.el].dev = "playing"
    /\ Commit(updateProgress(Plugin))
    /\ UNCHANGED <<settings, decoded, cleaned, stopLog, replay, pendingPlays, plays, files, stamp>>

\* the values the user drags the progress bar to: the range input keeps
\* them within its min and max
SeekValues == {v \in {0, 1, 2, progressBar.max} : v <= progressBar.max}

\* 'input' on the progress bar: the seek
SeekInput(v) ==
    /\ progressBar.shown
    /\ IF currentAudio # 0
       THEN Commit(setCurrentTime(Plugin, currentAudio, v))
       ELSE Commit(Plugin)
    /\ UNCHANGED <<settings, decoded, cleaned, stopLog, replay, pendingPlays, plays, files, stamp>>

\* the decoder of fetchGeminiAudio applied to a payload and a declared type:
\* it returns the buffer and the playable type, or throws on a payload that
\* is not base64
Decode(base64Audio, mimeType) ==
    /\ decoded.state = "none"
    /\ decoded' =
          IF ValidBase64(base64Audio)
          THEN [base64Audio |-> base64Audio, mimeType |-> mimeType,
                state |-> "returned",
                result |-> decode(base64Audio, mimeType)]
          ELSE [NoDecode EXCEPT !.base64Audio = base64Audio,
                                !.mimeType = mimeType,
                                !.state = "thrown"]
    /\ UNCHANGED <<settings, currentAudio, currentAudioBlob, isPlaying,
                   isPaused, statusBar, notice, audio, revoked, req,
                   pendingPlays, plays, files, stamp, progressBar, cleaned,
                   stopLog, replay>>

\* String.prototype.toLowerCase, on one character
toLowerCase(c) ==
    IF \E k \in 1..26 : Base64Alphabet[k] = c
    THEN Base64Alphabet[(CHOOSE k \in 1..26 : Base64Alphabet[k] = c) + 26]
    ELSE c

\* `${fileName}_${timestamp}.wav` of saveCurrentAudio
audioFileName(fileName, timestamp) ==
    fileName \o <<"_">> \o timestamp \o <<".", "w", "a", "v">>

\* `audio.name.split('.').pop()?.toLowerCase()` of playAudio: what follows
\* the last dot, the whole name when it has none
extension(name) ==
    LET dots == {i \in 1..Len(name) : name[i] = "."}
        from == IF dots = {} THEN 1
                ELSE (CHOOSE i \in dots : \A j \in dots : i >= j) + 1
    IN  [k \in 1..(Len(name) - from + 1) |-> toLowerCase(name[from + k - 1])]

\* the type playAudio gives the blob it makes from a file of the list
playMimeType(name) ==
    LET ext == extension(name)
    IN  IF ext = <<"w", "a", "v">> THEN "audio/wav"
        ELSE IF ext = <<"o", "g", "g">> THEN "audio/ogg"
        ELSE IF ext = <<"m", "4", "a">> THEN "audio/mp4"
        ELSE IF ext = <<"m", "p", "3">> THEN "audio/mpeg"
        ELSE "audio/mpeg"

\* readActiveNote, lines 651-656: the response is decoded and the blob made
\* with the playable type
Generate(base64Audio, mimeType) ==
    /\ replay.state = "none"
    /\ replay' = [NoReplay EXCEPT
                     !.state = "generated",
                     !.base64Audio = base64Audio,
                     !.mimeType = mimeType,
                     !.blobType = decode(base64Audio, mimeType).mimeType]
    /\ UNCHANGED <<settings, currentAudio, currentAudioBlob, isPlaying,
                   isPaused, statusBar, notice, audio, revoked, req,
                   pendingPlays, plays, files, stamp, progressBar, decoded,
                   cleaned, stopLog>>

\* saveCurrentAudio writes the blob to a file named after the active file,
\* or `audio` when there is none, and the clock
SaveBlob(fileName, timestamp) ==
    /\ replay.state = "generated"
    /\ replay' = [replay EXCEPT
                     !.state = "saved",
                     !.name = audioFileName(fileName, timestamp)]
    /\ UNCHANGED <<settings, currentAudio, currentAudioBlob, isPlaying,
                   isPaused, statusBar, notice, audio, revoked, req,
                   pendingPlays, plays, files, stamp, progressBar, decoded,
                   cleaned, stopLog>>

\* playAudio on the saved file: the blob handed to the new audio element
PlaySaved ==
    /\ replay.state = "saved"
    /\ replay' = [replay EXCEPT
                     !.state = "played",
                     !.played = playMimeType(replay.name)]
    /\ UNCHANGED <<settings, currentAudio, currentAudioBlob, isPlaying,
                   isPaused, statusBar, notice, audio, revoked, req,
                   pendingPlays, plays, files, stamp, progressBar, decoded,
                   cleaned, stopLog>>

\* cleanText applied to a text, under the setting skipCodeBlocks of the run
Clean(text) ==
    /\ cleaned.state = "none"
    /\ cleaned' =
          [text |-> text, state |-> "once",
           afterFrontMatter |-> removeFrontMatter(text),
           afterFences |-> IF settings.skipCodeBlocks
                           THEN removeFences(removeFrontMatter(text))
                           ELSE removeFrontMatter(text),
           result |-> cleanText(text, settings.skipCodeBlocks),
           again |-> << >>]
    /\ UNCHANGED <<settings, currentAudio, currentAudioBlob, isPlaying,
                   isPaused, statusBar, notice, audio, revoked, req,
                   pendingPlays, plays, files, stamp, progressBar, decoded,
                   stopLog, replay>>

\* cleanText applied to the text it has returned
CleanAgain ==
    /\ cleaned.state = "once"
    /\ cleaned' = [cleaned EXCEPT
                      !.state = "twice",
                      !.again = cleanText(cleaned.result,
                                          settings.skipCodeBlocks)]
    /\ UNCHANGED <<settings, currentAudio, currentAudioBlob, isPlaying,
                   isPaused, statusBar, notice, audio, revoked, req,
                   pendingPlays, plays, files, stamp, progressBar, decoded,
                   stopLog, replay>>

\* a play button of the sidebar's file list: playAudio up to readBinary
PlayAudio ==
    /\ plays < MaxPlays
    /\ plays' = plays + 1
    /\ pendingPlays' = pendingPlays + 1
    /\ Commit(Plugin)
    /\ UNCHANGED <<settings, decoded, cleaned, stopLog, replay, files, stamp>>

\* readBinary returns the file: the rest of playAudio
PlayAudioReads ==
    /\ pendingPlays > 0
    /\ pendingPlays' = pendingPlays - 1
    /\ Commit(Settle(playAudio(Plugin, NextAudio)))
    /\ UNCHANGED <<settings, decoded, cleaned, stopLog, replay, plays, files, stamp>>

\* readBinary fails: the catch block of playAudio
PlayAudioFails ==
    /\ pendingPlays > 0
    /\ pendingPlays' = pendingPlays - 1
    /\ Commit(Notice(Plugin, <<"Error playing audio: ", "ENOENT">>))
    /\ UNCHANGED <<settings, decoded, cleaned, stopLog, replay, plays, files, stamp>>

Next ==
    \/ \E view \in BOOLEAN, ed \in Editors : ReadActiveNote(view, ed)
    \/ \E r \in Reads, resp \in Responses : FetchResponds(r, resp)
    \/ \E a \in Audios : DeviceStarts(a)
    \/ \E a \in Audios : DeviceEnds(a)
    \/ \E a \in Audios : DeviceFails(a)
    \/ \E r \in Reads : SaveCompletes(r)
    \/ StopPlayback
    \/ TogglePauseResume
    \/ PlayAudio
    \/ PlayAudioReads
    \/ PlayAudioFails

Spec == Init /\ [][Next]_vars

\* reading, stopping and saving: the read requests with their automatic
\* save, and the save command
SaveNext ==
    \/ \E view \in BOOLEAN, ed \in Editors : ReadActiveNote(view, ed)
    \/ \E r \in Reads, resp \in Responses : FetchResponds(r, resp)
    \/ \E a \in Audios : DeviceStarts(a)
    \/ \E a \in Audios : DeviceEnds(a)
    \/ \E a \in Audios : DeviceFails(a)
    \/ \E r \in Reads : SaveCompletes(r)
    \/ SaveCurrentAudio
    \/ StopPlayback

SaveSpec == Init /\ [][SaveNext]_vars

\* reading with the popup player and its repeat button
LoopNext ==
    \/ \E view \in BOOLEAN, ed \in Editors : ReadActiveNote(view, ed)
    \/ \E r \in Reads, resp \in Responses : FetchResponds(r, resp)
    \/ \E a \in Audios : DeviceStarts(a)
    \/ \E a \in Audios : DeviceEnds(a)
    \/ \E a \in Audios : DeviceFails(a)
    \/ \E r \in Reads : SaveCompletes(r)
    \/ StopPlayback
    \/ TogglePauseResume
    \/ ToggleRepeat

LoopSpec == Init /\ [][LoopNext]_vars

\* playing and seeking: the read requests, the sidebar's history and its
\* player with the progress bar
SeekNext ==
    \/ \E view \in BOOLEAN, ed \in Editors : ReadActiveNote(view, ed)
    \/ \E r \in Reads, resp \in Responses : FetchResponds(r, resp)
    \/ \E a \in Audios : DeviceStarts(a)
    \/ \E a \in Audios : DeviceEnds(a)
    \/ \E r \in Reads : SaveCompletes(r)
    \/ StopPlayback
    \/ PlayAudio
    \/ PlayAudioReads
    \/ PlayAudioFails
    \/ TimeUpdate
    \/ \E v \in SeekValues : SeekInput(v)

SeekSpec == Init /\ [][SeekNext]_vars

\* the decoder alone, on every payload and declared type of the input sets
DecodeNext ==
    \E base64Audio \in ValidPayloads \cup InvalidPayloads,
       mimeType \in MimeTypes : Decode(base64Audio, mimeType)

DecodeSpec == Init /\ [][DecodeNext]_vars

\* reading and playing with the stop command recorded
StopNext ==
    \/ \E view \in BOOLEAN, ed \in Editors : ReadActiveNote(view, ed)
    \/ \E r \in Reads, resp \in Responses : FetchResponds(r, resp)
    \/ \E a \in Audios : DeviceStarts(a)
    \/ \E a \in Audios : DeviceEnds(a)
    \/ \E r \in Reads : SaveCompletes(r)
    \/ StopCommand
    \/ PlayAudio
    \/ PlayAudioReads
    \/ PlayAudioFails

StopSpec == Init /\ [][StopNext]_vars

\* the base names of the active file, the last a name with a dot in it
BaseNames ==
    { <<"a", "u", "d", "i", "o">>,
      <<"n", "o", "t", "e">>,
      <<"t", "a", "l", "k", ".", "o", "g", "g">> }

\* `new Date().toISOString().replace(/[:.]/g, '-').slice(0, -5)`
ClockStamps ==
    { <<"2", "0", "2", "6", "-", "0", "1", "-", "0", "2", "T", "1", "0", "-",
        "1", "5", "-", "0", "0">> }

\* one audio from the response to the sidebar's player
ReplayNext ==
    \/ /\ replay.state = "none"
       /\ \E base64Audio \in ValidPayloads, mimeType \in MimeTypes :
              Generate(base64Audio, mimeType)
    \/ \E fileName \in BaseNames, timestamp \in ClockStamps :
           SaveBlob(fileName, timestamp)
    \/ PlaySaved

ReplaySpec == Init /\ [][ReplayNext]_vars

\* cleanText alone, on every text of the input set, and on its own output
CleanNext ==
    \/ cleaned.state = "none" /\ \E text \in Texts : Clean(text)
    \/ CleanAgain

CleanSpec == Init /\ [][CleanNext]_vars

(***************************************************************************)
(* Properties.                                                             *)
(***************************************************************************)

\* an element the device is playing or is about to play
Live(a) == audio[a].dev \in {"loading", "playing"}
\* an element that has not left Loading / Playing / Paused
InSession(a) == audio[a].dev \in {"loading", "playing", "paused"}
\* the elements (and object URLs) created so far
Created == {a \in Audios : audio[a].dev # "none"}
\* the controller is Idle
Idle == currentAudio = 0 /\ ~isPlaying /\ ~isPaused

\* C1: in every reachable state at most one audio element is live (created
\* and neither paused nor ended), whatever the interleaving of read requests,
\* sidebar plays, stop and pause/resume.
C1_AtMostOneLive == Cardinality({a \in Audios : Live(a)}) <= 1

\* C2: whenever a session is started while an earlier session still exists,
\* afterwards the new element is the only live one, the earlier element is
\* paused and the earlier element's object URL has been revoked exactly once.
C2_StartTearsDownPrior ==
    [][\A b \in Audios :
          (audio[b].dev = "none" /\ audio'[b].dev # "none")
          => /\ {a \in Audios : audio'[a].dev \in {"loading", "playing"}} = {b}
             /\ \A a \in Audios \ {b} :
                    InSession(a) => audio'[a].dev = "paused" /\ revoked'[a] = 1
      ]_vars

\* C3: stopPlayback, invoked while a session exists (loading, playing or
\* paused), revokes the session's object URL and leaves the controller Idle.
C3_StopReleases ==
    [][(StopPlayback /\ currentAudio # 0 /\ InSession(currentAudio))
          => /\ revoked'[currentAudio] = revoked[currentAudio] + 1
             /\ currentAudio' = 0 /\ ~isPlaying' /\ ~isPaused'
      ]_vars

\* C4: every session that has left through natural end or through a device
\* error has had its object URL revoked exactly once.
C4_ExitReleasesOnce ==
    \A a \in Audios : audio[a].dev \in {"ended", "error"} => revoked[a] = 1

\* C5: when the current session completes naturally (loop is off), the
\* controller is Idle afterwards: currentAudio is null, isPlaying and
\* isPaused are false.
C5_EndedIsIdle ==
    [][\A a \in Audios :
          (DeviceEnds(a) /\ currentAudio = a)
          => (currentAudio' = 0 /\ ~isPlaying' /\ ~isPaused')
      ]_vars

\* C6: every failure of a read request (missing API key, failed remote call,
\* malformed response, rejected play(), device error) leaves the system Idle
\* with the request's object URL revoked.
C6_FailureLeavesIdle ==
    [][\A r \in Reads :
          (\/ /\ req[r].pc \in {"none", "fetch", "play"}
              /\ req'[r].pc = "done"
              /\ statusBar' = "Gemini TTS: Error"
           \/ \E a \in Audios : audio[a].owner = r /\ DeviceFails(a))
          => /\ currentAudio' = 0 /\ ~isPlaying' /\ ~isPaused'
             /\ req'[r].el # 0 => revoked'[req'[r].el] >= 1
      ]_vars

NothingToRead == {<<"Note is empty">>, <<"No readable text found in note">>}
ApiKeyNotice ==
    <<"Error: ",
      "API key not configured. Please set your Gemini API key in plugin settings.">>

\* C7: a read request on a document that is empty or whitespace-only, or
\* whose normalized text is empty, shows a 'nothing to read' notice and
\* returns: it sends no HTTP request and creates no element and no URL.
C7_EmptyInputShortCircuits ==
    [][\A ed \in Editors :
          (/\ ReadActiveNote(TRUE, ed)
           /\ \/ Len(trim(ed.doc)) = 0
              \/ Len(trim(cleanText(ed.doc, settings.skipCodeBlocks))) = 0)
          => /\ \E k \in DOMAIN notice' : notice'[k] \in NothingToRead
             /\ req'[NextRead] = [NoReq EXCEPT !.pc = "done"]
             /\ Created' = Created
             /\ currentAudio' = 0
      ]_vars

\* C7 witness: a request on a document holding only a fenced code block has
\* returned with the notice and without an HTTP request
C7_Witness ==
    /\ notice = << <<"No readable text found in note">> >>
    /\ \E r \in Reads : req[r] = [NoReq EXCEPT !.pc = "done"]

\* C8: when the remote call returns a non-success HTTP status, the request
\* ends with an error notice that carries the status code, it creates no
\* session and sends no second HTTP request, and the controller is Idle
\* afterwards.
C8_HttpErrorLeavesIdle ==
    [][\A r \in Reads, resp \in Responses :
          (FetchResponds(r, resp) /\ resp.body = "error")
          => /\ notice' = << <<"Error: ", "Failed to fetch audio: ",
                               "API request failed: ", ToString(resp.status)>> >>
             /\ req'[r] = [NoReq EXCEPT !.pc = "done", !.http = 1]
             /\ Created' = Created
             /\ currentAudio' = 0 /\ ~isPlaying' /\ ~isPaused'
      ]_vars

\* C9: with an empty API key no read request ever sends an HTTP request or
\* creates a session; a request that has text to read ends at once with the
\* configuration error shown to the user, and a request that has ended sends
\* nothing later.
C9_NoApiKeyNoRequest ==
    [][/\ \A view \in BOOLEAN, ed \in Editors :
            (ReadActiveNote(view, ed) /\ settings.apiKey = "")
            => /\ req'[NextRead] = [NoReq EXCEPT !.pc = "done"]
               /\ Created' = Created
               /\ (/\ view
                   /\ Len(trim(ed.doc)) # 0
                   /\ Len(trim(cleanText(ed.doc, settings.skipCodeBlocks))) # 0)
                  => /\ \E k \in DOMAIN notice' : notice'[k] = ApiKeyNotice
                     /\ statusBar' = "Gemini TTS: Error"
       /\ \A r \in Reads :
            req[r].pc = "done" => (req'[r].pc = "done" /\ req'[r].http = req[r].http)
      ]_vars

\* C9 witness: a request has ended with the configuration error and has sent
\* no HTTP request
C9_Witness ==
    /\ settings.apiKey = ""
    /\ notice = <<<<"Generating audio...">>, ApiKeyNotice>>
    /\ \E r \in Reads : req[r] = [NoReq EXCEPT !.pc = "done"]

\* C10: the text a read request sends to the remote service is the normalized
\* selection when the selection is not empty, and the normalized document
\* only when the selection is empty.
C10_SelectionPreferred ==
    [][\A ed \in Editors :
          (ReadActiveNote(TRUE, ed) /\ req'[NextRead].pc = "fetch")
          => req'[NextRead].text =
                 cleanText(IF ed.sel # << >> THEN ed.sel ELSE ed.doc,
                           settings.skipCodeBlocks)
      ]_vars

\* C11: pause takes effect only from Playing and resume only from Paused:
\* togglePauseResume moves a playing session to paused and a paused session
\* back to playing, and with no session loaded, or with a session that has
\* ended or failed, it leaves the elements, isPlaying and isPaused unchanged.
C11_ToggleOnlyPlayingPaused ==
    [][TogglePauseResume
          => IF currentAudio = 0 \/ audio[currentAudio].dev \in {"ended", "error"}
                 THEN audio' = audio /\ isPlaying' = isPlaying
                      /\ isPaused' = isPaused
             ELSE IF audio[currentAudio].dev = "playing"
                 THEN audio'[currentAudio].dev = "paused"
                      /\ isPaused' /\ ~isPlaying'
             ELSE IF audio[currentAudio].dev = "paused"
                 THEN audio'[currentAudio].dev \in {"loading", "playing"}
                      /\ isPlaying' /\ ~isPaused'
             ELSE TRUE
      ]_vars

\* C12: with auto-save (saveAudioFiles) off, a read request writes no file:
\* every file written so far was written by the save command.
C12_NoAutoSaveWhenDisabled ==
    ~settings.saveAudioFiles
        => \A k \in DOMAIN files : files[k].by = "command"

\* C13: a saved file is never written again: every call of writeBinary made
\* by a save, automatic or explicit, went to a path no earlier save had
\* written, also when two saves fall into the same clock second.
C13_SavesNeverOverwrite ==
    \A j, k \in DOMAIN files : j # k => files[j].path # files[k].path

\* C14: the status bar agrees with the playback state in every reachable
\* state: it reads 'Playing...' only while some audio element is playing (or
\* has been asked to play), and 'Stopped' only while no element is.
C14_StatusBarAgrees ==
    /\ statusBar = "Gemini TTS: Playing..." => \E a \in Audios : Live(a)
    /\ statusBar = "Gemini TTS: Stopped" => \A a \in Audios : ~Live(a)

C16_SeekWithinDuration ==
    [][\A v \in SeekValues :
          (SeekInput(v) /\ currentAudio # 0 /\ InSession(currentAudio))
          => audio'[currentAudio].pos \in 0..Duration(currentAudio)
      ]_vars

\* the unsigned little-endian number in the four (two) bytes of w that follow
\* the offset
readUint32(w, offset) ==
    w[offset + 1] + 256 * w[offset + 2] + 65536 * w[offset + 3]
    + 16777216 * w[offset + 4]
readUint16(w, offset) == w[offset + 1] + 256 * w[offset + 2]

\* the rate=<N> parameter of each text of MimeTexts, 24000 where the text
\* has none; for a text with two, the first
DeclaredRates ==
    <<24000, 24000, 16000, 24000, 24000, 1073741823, 24000, 24000, 24000,
      24000, 24000, 24000, 8000, 8000>>
DeclaredRate(mimeType) ==
    IF ~mimeType.given THEN 24000
    ELSE DeclaredRates[CHOOSE k \in DOMAIN MimeTexts :
                           MimeTexts[k] = mimeType.text]

\* C17: for every declared type, an absent one included, the decoder returns
\* one playable type: WAV if the type contains L16 or pcm, else MPEG if it
\* contains mpeg, else OGG if it contains ogg, else MPEG; and unless the type
\* is PCM the returned bytes are the base64-decoded payload unchanged.
C17_PlayableTypePriority ==
    decoded.state = "returned"
    => LET m == decoded.mimeType
           has(lit) == m.given /\ includes(m.text, lit)
           isPcm == has(<<"L", "1", "6">>) \/ has(<<"p", "c", "m">>)
       IN  /\ decoded.result.mimeType =
                 IF isPcm THEN "audio/wav"
                 ELSE IF has(<<"m", "p", "e", "g">>) THEN "audio/mpeg"
                 ELSE IF has(<<"o", "g", "g">>) THEN "audio/ogg"
                 ELSE "audio/mpeg"
           /\ ~isPcm => decoded.result.buffer = atob(decoded.base64Audio)

\* C17 witness: a type naming both ogg and mpeg has been decoded as MPEG, its
\* two bytes passed through
C17_Witness ==
    /\ decoded.state = "returned"
    /\ decoded.mimeType = [given |-> TRUE, text |-> MimeTexts[9]]
    /\ decoded.result = [buffer |-> <<1, 2>>, mimeType |-> "audio/mpeg"]

\* C18: for a PCM payload of N bytes at sample rate R the container has
\* length 44 + N, RIFF size 36 + N at offset 4, data size N at offset 40,
\* byte rate R * 1 * 2, block align 2, all fields little-endian, and the
\* payload from byte 44 on; R is the rate=<N> parameter of the declared type
\* and 24000 when there is none.
C18_WavHeader ==
    (decoded.state = "returned" /\ decoded.result.mimeType = "audio/wav")
    => LET w == decoded.result.buffer
           pcm == atob(decoded.base64Audio)
           N == Len(pcm)
           R == DeclaredRate(decoded.mimeType)
       IN  /\ Len(w) = 44 + N
           /\ \A i \in 1..Len(w) : w[i] \in 0..255
           /\ readUint32(w, 4) = 36 + N
           /\ readUint32(w, 40) = N
           /\ readUint32(w, 24) = R
           /\ readUint32(w, 28) = R * 1 * 2
           /\ readUint16(w, 32) = 2
           /\ SubSeq(w, 45, Len(w)) = pcm

\* C18 witness: four bytes of PCM declared at 16000 Hz have become a
\* 48-byte container
C18_Witness ==
    /\ decoded.state = "returned"
    /\ decoded.mimeType = [given |-> TRUE, text |-> MimeTexts[3]]
    /\ Len(decoded.result.buffer) = 48
    /\ SubSeq(decoded.result.buffer, 45, 48) = <<1, 2, 3, 4>>

\* C19: round trip: N 16-bit mono samples encoded at rate R, read back from
\* the container as data size / block align and as the sample-rate field,
\* give N and R again.
C19_RoundTrip ==
    (/\ decoded.state = "returned"
     /\ decoded.result.mimeType = "audio/wav"
     /\ Len(atob(decoded.base64Audio)) % 2 = 0)
    => LET w == decoded.result.buffer
           N == Len(atob(decoded.base64Audio)) \div 2
           R == DeclaredRate(decoded.mimeType)
       IN  /\ readUint16(w, 32) > 0
           /\ readUint32(w, 40) = N * readUint16(w, 32)
           /\ readUint32(w, 40) \div readUint16(w, 32) = N
           /\ readUint16(w, 34) = 16 /\ readUint16(w, 22) = 1
           /\ readUint32(w, 24) = R

\* C19 witness: two samples at 8000 Hz have been encoded
C19_Witness ==
    /\ decoded.state = "returned"
    /\ decoded.mimeType = [given |-> TRUE, text |-> MimeTexts[13]]
    /\ decoded.result.mimeType = "audio/wav"
    /\ Len(atob(decoded.base64Audio)) = 4

\* the error shown for a payload that is not base64
DecodeErrorNotice ==
    <<"Error: ", "Failed to fetch audio: ", "Failed to decode audio data: ",
      "InvalidCharacterError">>

\* C20: when the payload of the response is not valid base64, the request
\* fails with a decode error shown to the user: no audio element and no
\* object URL is created, no blob is kept, nothing is saved, and the request
\* has ended.
C20_BadBase64Fails ==
    [][\A r \in Reads, resp \in Responses :
          (FetchResponds(r, resp) /\ resp.body = "audio"
              /\ resp.data \in InvalidPayloads)
          => /\ \E k \in DOMAIN notice' : notice'[k] = DecodeErrorNotice
             /\ Created' = Created
             /\ currentAudioBlob' = currentAudioBlob
             /\ files' = files
             /\ req'[r] = [NoReq EXCEPT !.pc = "done", !.http = 1]
      ]_vars

\* C20 witness: a request has ended with the decode error, without an element
C20_Witness ==
    /\ notice = <<DecodeErrorNotice>>
    /\ \E r \in Reads : req[r] = [NoReq EXCEPT !.pc = "done", !.http = 1]

\* the line that position i starts is the delimiter `---`
DelimiterLineAt(t, i) ==
    /\ AtLineStart(t, i)
    /\ HasAt(t, i, <<"-", "-", "-">>)
    /\ (i + 2 = Len(t) \/ t[i + 3] = "\n")

\* the starts of the delimiter lines after the first line
ClosingLines(t) == {k \in 5..Len(t) : DelimiterLineAt(t, k)}

\* C21: the front-matter step of cleanText removes a leading block only: a
\* text whose first line is not `---` passes through it unchanged, and from
\* a text that starts with a `---` line and has a later `---` line exactly
\* the lines from the first up to the nearest such line are removed.
C21_FrontMatterLeadingOnly ==
    cleaned.state # "none"
    => LET t == cleaned.text
       IN  /\ ~DelimiterLineAt(t, 1) => cleaned.afterFrontMatter = t
           /\ (DelimiterLineAt(t, 1) /\ ClosingLines(t) # {})
              => LET k == CHOOSE c \in ClosingLines(t) :
                              \A m \in ClosingLines(t) : c <= m
                 IN  cleaned.afterFrontMatter = Slice(t, k + 4, Len(t))

\* C22: with skipCodeBlocks on, the text cleanText returns holds no backtick.
C22_NoBacktickSurvives ==
    (cleaned.state # "none" /\ settings.skipCodeBlocks)
    => \A i \in 1..Len(cleaned.result) : cleaned.result[i] # BT

\* C23: with skipCodeBlocks on, a text whose first fence has no closing fence
\* loses everything from that fence to its end in the fence step.
C23_OpenFenceRemovedToEnd ==
    (cleaned.state # "none" /\ settings.skipCodeBlocks)
    => LET s == cleaned.afterFrontMatter
           i == FirstAt(s, 1, <<BT, BT, BT>>)
       IN  (i # 0 /\ FirstAt(s, i + 3, <<BT, BT, BT>>) = 0)
           => cleaned.afterFences = Slice(s, 1, i - 1)

\* C24: cleanText is idempotent: given the text it has returned, under the
\* same setting, it returns that text.
C24_Idempotent ==
    cleaned.state = "twice" => cleaned.again = cleaned.result

\* C25: in every reachable state isPlaying and isPaused are not both true.
C25_NotPlayingAndPaused == ~(isPlaying /\ isPaused)

\* C26: in every reachable state, if isPlaying or isPaused is true then
\* currentAudio is not null.
C26_FlagsNeedElement == (isPlaying \/ isPaused) => currentAudio # 0

\* C25 witness: a session has been paused by togglePauseResume
C25_Witness ==
    /\ isPaused /\ ~isPlaying
    /\ currentAudio # 0 /\ audio[currentAudio].dev = "paused"
    /\ notice = << <<"Playback paused">> >>

\* C26 witness: a session is paused while a second read request is suspended
\* at its remote call
C26_Witness ==
    /\ isPaused /\ currentAudio # 0
    /\ \E r \in Reads : req[r].pc = "fetch"
    /\ \E r \in Reads : req[r].el = currentAudio

\* C27: once the stop command has been invoked and no read request and no
\* sidebar play has been issued since, no step makes an audio element live: a
\* request that was awaiting its response at the stop does not start playing.
C27_NothingStartsAfterStop ==
    [][(/\ stopLog.invoked
        /\ stopLog.reads = NextRead - 1 /\ stopLog.plays = plays
        /\ NextRead' = NextRead /\ plays' = plays)
          => \A a \in Audios : Live(a)' => Live(a)
      ]_vars

\* C28: every file written by a read request's automatic save holds the
\* audio that this request generated, also when read requests overlap, and
\* no generated audio is written by more than one automatic save.
C28_SaveWritesOwnAudio ==
    /\ \A k \in DOMAIN files :
          files[k].by = "read" => files[k].blob = files[k].r
    /\ \A j, k \in DOMAIN files :
          (files[j].by = "read" /\ files[k].by = "read" /\ j # k)
          => files[j].blob # files[k].blob

\* C29: an audio saved by saveCurrentAudio and then played from the sidebar
\* list is handed to the device with the type it was generated with, for
\* every playable type the decoder returns.
C29_ReplayKeepsType ==
    replay.state = "played" => replay.played = replay.blobType

\* the isPlaying flag agrees with the device state of the current element
PlayingFlagAgrees ==
    currentAudio # 0
    => /\ audio[currentAudio].dev = "playing" => isPlaying
       /\ audio[currentAudio].dev \in {"ended", "error", "paused"} => ~isPlaying

\* C30: after every step isPlaying agrees with the device state of the
\* current element (true when it is playing; false when it has ended, failed
\* or been paused), and an ended or error event of an element that is not
\* the current one leaves the flags of the current session as they are.
C30_FlagFollowsDevice ==
    [][/\ PlayingFlagAgrees'
       /\ \A a \in Audios :
             ((DeviceEnds(a) \/ DeviceFails(a))
                 /\ currentAudio # 0 /\ a # currentAudio)
             => (isPlaying' = isPlaying /\ isPaused' = isPaused)
      ]_vars

====
